---- MODULE Spec2Model ----
(***************************************************************************)
(* Order placement and inventory reservation of                            *)
(* src/controllers/orderController.js (createOrder).                       *)
(*                                                                         *)
(* Every placement is one invocation of the async handler createOrder.     *)
(* The handler suspends only at its store calls (Product.findById,         *)
(* Order.save, Product.findByIdAndUpdate), so one action of the model is   *)
(* one store operation taking effect together with the synchronous code    *)
(* that runs when its promise settles.  The store executes the operations  *)
(* of all placements in any order; an operation may also raise an error.   *)
(***************************************************************************)
EXTENDS Integers, Sequences, FiniteSets

\* ---------------------------------------------------------------- bounds
\* Initial quantities range over 0..MaxStock, requested quantities over
\* -1..MaxQty.
MaxStock == 2
MaxQty == 2

\* ------------------------------------------------------------ the domain
\* Invocations of createOrder, numbered in order of arrival.
Placements == {1, 2}

\* Products the inventory store holds, and a reference that resolves to none.
Products == {"A", "B"}
MissingId == "X"
ProductIds == Products \cup {MissingId}

PositiveQtys == 1..MaxQty
NonPositiveQtys == {-1, 0}
Qtys == NonPositiveQtys \cup PositiveQtys

LineItems == [productId : ProductIds, quantity : Qtys]

\* The products array of a request: no, one or two line items.
ItemLists(S) == {<<>>} \cup {<<a>> : a \in S} \cup {<<a, b>> : a \in S, b \in S}

\* req.body.deliveryAddress as JavaScript sees it: absent, "", {} or an
\* object with fields.
AddressValues == {"undefined", "emptyString", "emptyObject", "object"}

\* req.body.products: absent, a value that is no array, or an array.
ProductsValues ==
    {[kind |-> "undefined", items |-> <<>>], [kind |-> "object", items |-> <<>>]}
        \cup {[kind |-> "array", items |-> s] : s \in ItemLists(LineItems)}

Bodies == [deliveryAddress : AddressValues, products : ProductsValues]

\* req.params.id of updateOrder: the id of a placement's order, or a string
\* that is no ObjectId.
MalformedId == 0
UpdateIds == Placements \cup {MalformedId}

\* req.body of updateOrder: an address patch or none, a products array or
\* none.
UpdateBodies ==
    [deliveryAddress : {"undefined", "object"},
     products : {[kind |-> "undefined", items |-> <<>>],
                 [kind |-> "array", items |-> <<>>],
                 [kind |-> "array", items |-> <<[productId |-> "A", quantity |-> 1]>>]}]

NoUpdate == [id |-> MalformedId,
             body |-> [deliveryAddress |-> "none",
                       products |-> [kind |-> "none", items |-> <<>>]]]

NoRequest == [deliveryAddress |-> "none", products |-> [kind |-> "none", items |-> <<>>]]
NoResponse == [status |-> 0, message |-> "none", errors |-> <<>>]

MsgInvalid == "Please provide valid delivery address and at least one product"
MsgShortage == "One or more products have insufficient quantity"
MsgItemShort == "Not enough quantity available for a product"
MsgCreated == "Order created successfully"
MsgFailed == "Failed to create a new order"

VARIABLES
    stock,          \* Product collection: product id -> quantity
    orders,         \* Order collection: the persisted order records
    req,            \* req.body of each placement
    pc,             \* where each invocation of createOrder stands
    checksPending,  \* productChecks: line items whose findById is in flight
    errorMessages,  \* the errorMessages array of each invocation
    updatesPending, \* productUpdates: line items whose findByIdAndUpdate is in flight
    response,       \* what res.status(..).json(..) sent
    storeLog,       \* history: what the store did for each placement: the
                    \* operations that took effect ("read", "save", "update"),
                    \* the reads that found the item missing or understocked
                    \* ("short") and the operations that raised an error
    initialStock,   \* history: the stock before any placement began
    updReq,         \* req.params.id and req.body of the updateOrder invocation
    updPc,          \* where the invocation of updateOrder stands
    updResponse     \* the status updateOrder answered with

placementVars == <<stock, req, pc, checksPending, errorMessages, updatesPending,
                   response, storeLog, initialStock>>
updateVars == <<updReq, updPc, updResponse>>

vars == <<stock, orders, req, pc, checksPending, errorMessages, updatesPending,
          response, storeLog, initialStock, updReq, updPc, updResponse>>

\* ------------------------------------------------------- pure functions
\* JavaScript truthiness of the delivery address (line 9, !deliveryAddress).
Falsy(address) == address \in {"undefined", "emptyString"}

IsArray(products) == products.kind = "array"

\* The guard of line 9.
InvalidBody(body) ==
    \/ Falsy(body.deliveryAddress)
    \/ ~IsArray(body.products)
    \/ Len(body.products.items) = 0

Items(p) == req[p].products.items
Indices(p) == 1..Len(Items(p))

\* Product.findById: the quantity of the stored product, or no product.
Exists(productId) == productId \in Products

\* The test of line 22 without its !existingProduct half.
InsufficientStockOnly(s, item) ==
    /\ Exists(item.productId)
    /\ s[item.productId] < item.quantity

\* The test of line 22 with <= in place of <.
InsufficientOrEqual(s, item) ==
    \/ ~Exists(item.productId)
    \/ s[item.productId] <= item.quantity

\* The test of line 22 against the store contents s.
Insufficient(s, item) ==
    \/ ~Exists(item.productId)
    \/ s[item.productId] < item.quantity

\* Product.findByIdAndUpdate(productId, {$inc: {quantity: -quantity}}):
\* an unconditional increment; no document matches a missing id.
IncQuantity(s, item) ==
    IF Exists(item.productId)
    THEN [s EXCEPT ![item.productId] = @ - item.quantity]
    ELSE s

\* new Order(req.body) for placement p.
NewOrder(p) ==
    [id |-> p, deliveryAddress |-> req[p].deliveryAddress, products |-> Items(p)]

BadRequest == [status |-> 400, message |-> MsgInvalid, errors |-> <<>>]
Shortage(errs) == [status |-> 400, message |-> MsgShortage, errors |-> errs]
Created == [status |-> 201, message |-> MsgCreated, errors |-> <<>>]
Failed == [status |-> 500, message |-> MsgFailed, errors |-> <<>>]

\* -------------------------------------------------------------- workload
\* A well-formed body: an address object and a non-empty array of line
\* items naming distinct stored products with positive quantities.
WellFormed(body) ==
    /\ body.deliveryAddress = "object"
    /\ IsArray(body.products)
    /\ Len(body.products.items) > 0
    /\ \A i \in 1..Len(body.products.items) :
          /\ body.products.items[i].productId \in Products
          /\ body.products.items[i].quantity > 0
          /\ \A j \in 1..Len(body.products.items) :
                body.products.items[i].productId = body.products.items[j].productId
                    => i = j

WellFormedBodies ==
    {body \in [deliveryAddress : {"object"},
               products : {[kind |-> "array", items |-> s] :
                   s \in ItemLists([productId : Products, quantity : PositiveQtys])}] :
        WellFormed(body)}

\* The requests explored: any number of concurrent well-formed placements,
\* or one placement with an arbitrary body, or one well-formed placement
\* together with one updateOrder.  Placements arrive in the order of their
\* numbers.
Admitted(p, body) ==
    /\ \A q \in Placements : q < p => req[q] # NoRequest /\ WellFormed(req[q])
    /\ p > 1 => WellFormed(body) /\ updPc = "idle"

\* The bodies a placement that has not arrived yet may carry.
BodiesFor(p) ==
    IF pc[p] # "idle" \/ (p > 1 /\ updPc # "idle")
    THEN {}
    ELSE IF p = 1 THEN Bodies ELSE WellFormedBodies

\* ------------------------------------------------------------------ Init
Init ==
    /\ stock \in [Products -> 0..MaxStock]
    /\ initialStock = stock
    /\ orders = {}
    /\ req = [p \in Placements |-> NoRequest]
    /\ pc = [p \in Placements |-> "idle"]
    /\ checksPending = [p \in Placements |-> {}]
    /\ errorMessages = [p \in Placements |-> <<>>]
    /\ updatesPending = [p \in Placements |-> {}]
    /\ response = [p \in Placements |-> NoResponse]
    /\ storeLog = [p \in Placements |-> {}]
    /\ updReq = NoUpdate
    /\ updPc = "idle"
    /\ updResponse = [status |-> 0]

\* --------------------------------------------------------------- actions
\* Lines 5-25: the request arrives; the shape is validated and, when it
\* passes, one findById per line item is issued.
Receive(p, body) ==
    /\ pc[p] = "idle"
    /\ Admitted(p, body)
    /\ req' = [req EXCEPT ![p] = body]
    /\ IF InvalidBody(body)
       THEN /\ response' = [response EXCEPT ![p] = BadRequest]
            /\ pc' = [pc EXCEPT ![p] = "done"]
            /\ UNCHANGED checksPending
       ELSE /\ checksPending' = [checksPending EXCEPT ![p] = 1..Len(body.products.items)]
            /\ pc' = [pc EXCEPT ![p] = "checking"]
            /\ UNCHANGED response
    /\ UNCHANGED <<stock, orders, errorMessages, updatesPending, storeLog, initialStock>>

\* CheckItem answering the shortage as soon as one line item is found
\* short, without waiting for the reads still in flight.
CheckItemShortCircuit(p, i) ==
    /\ pc[p] = "checking"
    /\ i \in checksPending[p]
    /\ LET short == Insufficient(stock, Items(p)[i])
           errs == IF short
                   THEN Append(errorMessages[p], MsgItemShort)
                   ELSE errorMessages[p]
           left == IF short THEN {} ELSE checksPending[p] \ {i}
       IN /\ errorMessages' = [errorMessages EXCEPT ![p] = errs]
          /\ checksPending' = [checksPending EXCEPT ![p] = left]
          /\ storeLog' = [storeLog EXCEPT ![p] =
                            @ \cup {<<"read", i>>}
                              \cup (IF short THEN {<<"short", i>>} ELSE {})]
          /\ IF left # {}
             THEN UNCHANGED <<pc, response>>
             ELSE IF Len(errs) > 0
                  THEN /\ response' = [response EXCEPT ![p] = Shortage(errs)]
                       /\ pc' = [pc EXCEPT ![p] = "done"]
                  ELSE /\ pc' = [pc EXCEPT ![p] = "saving"]
                       /\ UNCHANGED response
    /\ UNCHANGED <<stock, orders, req, updatesPending, initialStock>>

\* CheckItem with the decrement applied as soon as the line item is found
\* sufficient (reserve-while-checking).
CheckItemReserving(p, i) ==
    /\ pc[p] = "checking"
    /\ i \in checksPending[p]
    /\ LET short == Insufficient(stock, Items(p)[i])
           errs == IF short
                   THEN Append(errorMessages[p], MsgItemShort)
                   ELSE errorMessages[p]
           left == checksPending[p] \ {i}
       IN /\ errorMessages' = [errorMessages EXCEPT ![p] = errs]
          /\ checksPending' = [checksPending EXCEPT ![p] = left]
          /\ storeLog' = [storeLog EXCEPT ![p] =
                            @ \cup {<<"read", i>>}
                              \cup (IF short THEN {<<"short", i>>} ELSE {})]
          /\ stock' = IF short THEN stock ELSE IncQuantity(stock, Items(p)[i])
          /\ IF left # {}
             THEN UNCHANGED <<pc, response>>
             ELSE IF Len(errs) > 0
                  THEN /\ response' = [response EXCEPT ![p] = Shortage(errs)]
                       /\ pc' = [pc EXCEPT ![p] = "done"]
                  ELSE /\ pc' = [pc EXCEPT ![p] = "saving"]
                       /\ UNCHANGED response
    /\ UNCHANGED <<orders, req, updatesPending, initialStock>>

\* Lines 19-36: the findById of line item i resolves.  When it was the last
\* one, Promise.all resolves: a non-empty errorMessages ends the placement
\* with the shortage response, otherwise the order save is issued.
CheckItem(p, i) ==
    /\ pc[p] = "checking"
    /\ i \in checksPending[p]
    /\ LET short == Insufficient(stock, Items(p)[i])
           errs == IF short
                   THEN Append(errorMessages[p], MsgItemShort)
                   ELSE errorMessages[p]
           left == checksPending[p] \ {i}
       IN /\ errorMessages' = [errorMessages EXCEPT ![p] = errs]
          /\ checksPending' = [checksPending EXCEPT ![p] = left]
          /\ storeLog' = [storeLog EXCEPT ![p] =
                            @ \cup {<<"read", i>>}
                              \cup (IF short THEN {<<"short", i>>} ELSE {})]
          /\ IF left # {}
             THEN UNCHANGED <<pc, response>>
             ELSE IF Len(errs) > 0
                  THEN /\ response' = [response EXCEPT ![p] = Shortage(errs)]
                       /\ pc' = [pc EXCEPT ![p] = "done"]
                  ELSE /\ pc' = [pc EXCEPT ![p] = "saving"]
                       /\ UNCHANGED response
    /\ UNCHANGED <<stock, orders, req, updatesPending, initialStock>>

\* CheckThrows with the rejected read caught inside the map callback and
\* counted as one more unavailable line item.
CheckThrowsAsShortage(p, i) ==
    /\ pc[p] = "checking"
    /\ i \in checksPending[p]
    /\ LET errs == Append(errorMessages[p], MsgItemShort)
       IN /\ errorMessages' = [errorMessages EXCEPT ![p] = errs]
          /\ IF checksPending[p] = {i}
             THEN /\ response' = [response EXCEPT ![p] = Shortage(errs)]
                  /\ pc' = [pc EXCEPT ![p] = "done"]
             ELSE UNCHANGED <<pc, response>>
    /\ checksPending' = [checksPending EXCEPT ![p] = @ \ {i}]
    /\ storeLog' = [storeLog EXCEPT ![p] = @ \cup {<<"readError", i>>}]
    /\ UNCHANGED <<stock, orders, req, updatesPending, initialStock>>

\* Lines 21, 27, 56-62: a findById rejects; Promise.all rejects and the
\* catch block answers 500.  The reads still in flight can only push to an
\* errorMessages array nobody reads any more.
CheckThrows(p, i) ==
    /\ pc[p] = "checking"
    /\ i \in checksPending[p]
    /\ checksPending' = [checksPending EXCEPT ![p] = {}]
    /\ response' = [response EXCEPT ![p] = Failed]
    /\ pc' = [pc EXCEPT ![p] = "done"]
    /\ storeLog' = [storeLog EXCEPT ![p] = @ \cup {<<"readError", i>>}]
    /\ UNCHANGED <<stock, orders, req, errorMessages, updatesPending, initialStock>>

\* Lines 38-46: the order is saved, then one findByIdAndUpdate per line
\* item is issued.
SaveOrder(p) ==
    /\ pc[p] = "saving"
    /\ orders' = orders \cup {NewOrder(p)}
    /\ storeLog' = [storeLog EXCEPT ![p] = @ \cup {<<"save", 0>>}]
    /\ updatesPending' = [updatesPending EXCEPT ![p] = Indices(p)]
    /\ pc' = [pc EXCEPT ![p] = "updating"]
    /\ UNCHANGED <<stock, req, checksPending, errorMessages, response, initialStock>>

\* SaveThrows with the rejection of the save swallowed: the updates of
\* lines 41-46 are issued although no order was persisted.
SaveThrowsThenUpdates(p) ==
    /\ pc[p] = "saving"
    /\ updatesPending' = [updatesPending EXCEPT ![p] = Indices(p)]
    /\ pc' = [pc EXCEPT ![p] = "updating"]
    /\ storeLog' = [storeLog EXCEPT ![p] = @ \cup {<<"saveError", 0>>}]
    /\ UNCHANGED <<stock, orders, req, checksPending, errorMessages, response,
                   initialStock>>

\* Lines 39, 56-62: the save rejects (validation or store error).
SaveThrows(p) ==
    /\ pc[p] = "saving"
    /\ response' = [response EXCEPT ![p] = Failed]
    /\ pc' = [pc EXCEPT ![p] = "done"]
    /\ storeLog' = [storeLog EXCEPT ![p] = @ \cup {<<"saveError", 0>>}]
    /\ UNCHANGED <<stock, orders, req, checksPending, errorMessages, updatesPending,
                   initialStock>>

\* UpdateItem answering 201 as soon as the first update has resolved
\* (Promise.race in place of Promise.all).
UpdateItemRace(p, i) ==
    /\ pc[p] \in {"updating", "done"}
    /\ i \in updatesPending[p]
    /\ stock' = IncQuantity(stock, Items(p)[i])
    /\ storeLog' = [storeLog EXCEPT ![p] = @ \cup {<<"update", i>>}]
    /\ updatesPending' = [updatesPending EXCEPT ![p] = @ \ {i}]
    /\ IF pc[p] = "updating"
       THEN /\ response' = [response EXCEPT ![p] = Created]
            /\ pc' = [pc EXCEPT ![p] = "done"]
       ELSE UNCHANGED <<pc, response>>
    /\ UNCHANGED <<orders, req, checksPending, errorMessages, initialStock>>

\* Lines 41-55: the findByIdAndUpdate of line item i takes effect.  When
\* it was the last one and none has rejected, Promise.all resolves and 201
\* is sent.  An update still in flight after the 500 response takes effect
\* all the same.
UpdateItem(p, i) ==
    /\ pc[p] \in {"updating", "done"}
    /\ i \in updatesPending[p]
    /\ stock' = IncQuantity(stock, Items(p)[i])
    /\ storeLog' = [storeLog EXCEPT ![p] = @ \cup {<<"update", i>>}]
    /\ updatesPending' = [updatesPending EXCEPT ![p] = @ \ {i}]
    /\ IF pc[p] = "updating" /\ updatesPending[p] = {i}
       THEN /\ response' = [response EXCEPT ![p] = Created]
            /\ pc' = [pc EXCEPT ![p] = "done"]
       ELSE UNCHANGED <<pc, response>>
    /\ UNCHANGED <<orders, req, checksPending, errorMessages, initialStock>>

\* Lines 43, 48, 56-62: a findByIdAndUpdate rejects; the first rejection
\* makes Promise.all reject and the catch block answers 500.
UpdateThrows(p, i) ==
    /\ pc[p] \in {"updating", "done"}
    /\ i \in updatesPending[p]
    /\ updatesPending' = [updatesPending EXCEPT ![p] = @ \ {i}]
    /\ IF pc[p] = "updating"
       THEN /\ response' = [response EXCEPT ![p] = Failed]
            /\ pc' = [pc EXCEPT ![p] = "done"]
       ELSE UNCHANGED <<pc, response>>
    /\ storeLog' = [storeLog EXCEPT ![p] = @ \cup {<<"updateError", i>>}]
    /\ UNCHANGED <<stock, orders, req, checksPending, errorMessages, initialStock>>

\* ----------------------------------------------------------- updateOrder
\* mongoose.Types.ObjectId.isValid(id), line 128.
ObjectIdValid(id) == id # MalformedId

\* Line 147-150: {...existingOrder.deliveryAddress, ...deliveryAddress}.
MergeAddress(existing, patch) ==
    IF existing = "emptyObject" THEN patch ELSE "merged"

\* Order.findByIdAndUpdate(id, body): every field the body carries replaces
\* the order's field.
ApplyUpdate(o, body) ==
    [o EXCEPT !.deliveryAddress =
                  IF body.deliveryAddress = "undefined" THEN @ ELSE body.deliveryAddress,
              !.products =
                  IF body.products.kind = "array" THEN body.products.items ELSE @]

\* The updateOrder requests explored arrive beside one well-formed placement.
UpdateRequests ==
    IF updPc = "idle" /\ WellFormed(req[1]) /\ req[2] = NoRequest
    THEN UpdateIds \X UpdateBodies
    ELSE {}

\* Lines 123-136: the request arrives; a malformed id is answered 400,
\* otherwise Order.findById is issued.
UpdateReceive(id, body) ==
    /\ updPc = "idle"
    /\ WellFormed(req[1]) /\ req[2] = NoRequest
    /\ updReq' = [id |-> id, body |-> body]
    /\ IF ObjectIdValid(id)
       THEN updPc' = "finding" /\ UNCHANGED updResponse
       ELSE updPc' = "done" /\ updResponse' = [status |-> 400]
    /\ UNCHANGED <<orders, placementVars>>

\* Lines 136-156: findById resolves; without an order 404 is answered,
\* otherwise the address patch is merged into req.body and
\* findByIdAndUpdate is issued with the whole body.
UpdateFind ==
    /\ updPc = "finding"
    /\ IF \E o \in orders : o.id = updReq.id
       THEN LET existingOrder == CHOOSE o \in orders : o.id = updReq.id
            IN /\ updReq' =
                     IF updReq.body.deliveryAddress = "undefined"
                     THEN updReq
                     ELSE [updReq EXCEPT !.body.deliveryAddress =
                              MergeAddress(existingOrder.deliveryAddress, @)]
               /\ updPc' = "writing"
               /\ UNCHANGED updResponse
       ELSE /\ updPc' = "done"
            /\ updResponse' = [status |-> 404]
            /\ UNCHANGED updReq
    /\ UNCHANGED <<orders, placementVars>>

\* Lines 154-163: findByIdAndUpdate takes effect and 200 is answered.
UpdateWrite ==
    /\ updPc = "writing"
    /\ orders' = {IF o.id = updReq.id THEN ApplyUpdate(o, updReq.body) ELSE o :
                     o \in orders}
    /\ updPc' = "done"
    /\ updResponse' = [status |-> 200]
    /\ UNCHANGED <<updReq, placementVars>>

\* Lines 136, 154, 164-171: a store call of updateOrder rejects.
UpdateOrderThrows ==
    /\ updPc \in {"finding", "writing"}
    /\ updPc' = "done"
    /\ updResponse' = [status |-> 500]
    /\ UNCHANGED <<updReq, orders, placementVars>>

Next ==
    \/ \E p \in Placements : \E body \in BodiesFor(p) :
          Receive(p, body) /\ UNCHANGED updateVars
    \/ \E p \in Placements : \E i \in checksPending[p] :
          CheckItem(p, i) /\ UNCHANGED updateVars
    \/ \E p \in Placements : \E i \in checksPending[p] :
          CheckThrows(p, i) /\ UNCHANGED updateVars
    \/ \E p \in Placements : SaveOrder(p) /\ UNCHANGED updateVars
    \/ \E p \in Placements : SaveThrows(p) /\ UNCHANGED updateVars
    \/ \E p \in Placements : \E i \in updatesPending[p] :
          UpdateItem(p, i) /\ UNCHANGED updateVars
    \/ \E p \in Placements : \E i \in updatesPending[p] :
          UpdateThrows(p, i) /\ UNCHANGED updateVars
    \/ \E r \in UpdateRequests : UpdateReceive(r[1], r[2])
    \/ UpdateFind
    \/ UpdateWrite
    \/ UpdateOrderThrows

Spec == Init /\ [][Next]_vars

\* ------------------------------------------------------ derived quantities
\* The total quantity of product a over the line items idxs of items.
RECURSIVE SumQty(_, _, _)
SumQty(items, idxs, a) ==
    IF idxs = {}
    THEN 0
    ELSE LET i == CHOOSE j \in idxs : TRUE
         IN (IF items[i].productId = a THEN items[i].quantity ELSE 0)
                + SumQty(items, idxs \ {i}, a)

\* The line items of placement p whose decrement has taken effect.
Applied(p) == {i \in Indices(p) : <<"update", i>> \in storeLog[p]}

\* What the placements of P have subtracted from product a so far.
RECURSIVE AppliedQty(_, _)
AppliedQty(P, a) ==
    IF P = {}
    THEN 0
    ELSE LET p == CHOOSE q \in P : TRUE
         IN SumQty(Items(p), Applied(p), a) + AppliedQty(P \ {p}, a)

\* What the requests of the placements of P ask of product a.
RECURSIVE RequestedQty(_, _)
RequestedQty(P, a) ==
    IF P = {}
    THEN 0
    ELSE LET p == CHOOSE q \in P : TRUE
         IN SumQty(Items(p), Indices(p), a) + RequestedQty(P \ {p}, a)

\* What the persisted orders of O list for product a.
RECURSIVE OrderedQty(_, _)
OrderedQty(O, a) ==
    IF O = {}
    THEN 0
    ELSE LET o == CHOOSE x \in O : TRUE
         IN SumQty(o.products, 1..Len(o.products), a) + OrderedQty(O \ {o}, a)

Accepted(p) == response[p].status = 201
ShortageRejected(p) == response[p].status = 400 /\ response[p].message = MsgShortage
InputRejected(p) == response[p] = BadRequest
HasFailed(p) == response[p].status = 500
HasOrder(p) == \E o \in orders : o.id = p

\* No store operation of p is in flight and p is not between two of them.
Finished(p) == pc[p] = "done" /\ checksPending[p] = {} /\ updatesPending[p] = {}
Quiescent == \A p \in Placements : pc[p] = "idle" \/ Finished(p)

\* Every request received so far is well-formed.
WellFormedWorkload == \A p \in Placements : req[p] = NoRequest \/ WellFormed(req[p])

\* ------------------------------------------------------------------ claims

\* C1: no overselling.  For every product, the quantities of the placements
\* that ended Accepted (201) sum to at most the initial stock.  Stated for
\* well-formed requests, where only the interleaving of placements decides.
NoOverselling ==
    WellFormedWorkload =>
        \A a \in Products :
            RequestedQty({p \in Placements : Accepted(p)}, a) <= initialStock[a]

\* C2: every product's stored quantity is at least zero in every reachable
\* state.  Stated for well-formed requests.
QuantityNonNegative ==
    WellFormedWorkload => \A a \in Products : stock[a] >= 0

\* C3: two placements of one line item each on the same product, with stock
\* enough for either alone but not for both, and no store error: exactly one
\* ends Accepted, the other is rejected with a shortage, and the stock left
\* is the initial stock minus the accepted quantity.
ExactlyOneWinsRace ==
    \A p \in Placements : \A q \in Placements \ {p} :
        ( /\ WellFormed(req[p]) /\ WellFormed(req[q])
          /\ Len(Items(p)) = 1 /\ Len(Items(q)) = 1
          /\ Items(p)[1].productId = Items(q)[1].productId
          /\ Items(p)[1].quantity <= initialStock[Items(p)[1].productId]
          /\ Items(q)[1].quantity <= initialStock[Items(p)[1].productId]
          /\ Items(p)[1].quantity + Items(q)[1].quantity
                > initialStock[Items(p)[1].productId]
          /\ Finished(p) /\ Finished(q)
          /\ ~HasFailed(p) /\ ~HasFailed(q) )
        => \/ /\ Accepted(p) /\ ShortageRejected(q)
              /\ stock[Items(p)[1].productId]
                    = initialStock[Items(p)[1].productId] - Items(p)[1].quantity
           \/ /\ Accepted(q) /\ ShortageRejected(p)
              /\ stock[Items(p)[1].productId]
                    = initialStock[Items(p)[1].productId] - Items(q)[1].quantity

\* C4: atomic rollback.  A placement rejected for a stock shortage has
\* applied no decrement and saved no order, and none is pending: every
\* product's quantity is what the other placements alone have made it.
ShortageLeavesInventoryUntouched ==
    \A p \in Placements :
        ShortageRejected(p) =>
            /\ Applied(p) = {}
            /\ updatesPending[p] = {}
            /\ ~HasOrder(p)
            /\ \A a \in Products :
                  stock[a] = initialStock[a] - AppliedQty(Placements \ {p}, a)

\* A well-formed two-item placement rejected for a shortage although one of
\* its items was in stock from the start (Scenario 3).
ShortageWithSufficientItem ==
    \E p \in Placements :
        /\ ShortageRejected(p)
        /\ WellFormed(req[p])
        /\ Len(Items(p)) = 2
        /\ Len(response[p].errors) = 1
        /\ \E i \in Indices(p) : ~Insufficient(initialStock, Items(p)[i])

\* C5: all-or-nothing on failure.  A placement that ended Failed (500) has
\* subtracted none of its line items, and a finished placement has applied
\* all of its decrements or none.  Stated for well-formed requests.
FailedLeavesInventoryUntouched ==
    WellFormedWorkload =>
        \A p \in Placements :
            /\ HasFailed(p) => Applied(p) = {}
            /\ Finished(p) => Applied(p) = {} \/ Applied(p) = Indices(p)

\* C6: when a placement has answered Accepted (201), the decrement of every
\* one of its line items has taken effect, each by the requested quantity.
AcceptedMeansAllApplied ==
    \A p \in Placements :
        Accepted(p) =>
            /\ Applied(p) = Indices(p)
            /\ updatesPending[p] = {}
            /\ \A a \in Products :
                  stock[a] = initialStock[a] - AppliedQty(Placements, a)

\* An accepted two-item placement, after which the stock has changed.
AcceptedTwoItems ==
    \E p \in Placements :
        /\ Accepted(p)
        /\ Len(Items(p)) = 2
        /\ \E a \in Products : stock[a] < initialStock[a]

\* C7: the order record of a placement exists only once all of the
\* placement's decrements have been applied (Reserved before Recorded).
\* Stated for well-formed requests.
OrderSavedAfterReservation ==
    WellFormedWorkload =>
        \A p \in Placements : HasOrder(p) => Applied(p) = Indices(p)

\* C8: conservation.  When no placement is in flight, for every product the
\* initial stock minus the current stock equals what the persisted orders
\* list for it.  Stated for well-formed requests.
OrdersMatchInventory ==
    (WellFormedWorkload /\ Quiescent) =>
        \A a \in Products : initialStock[a] - stock[a] = OrderedQty(orders, a)

\* C9: a request whose delivery address is missing or empty, or whose
\* line-item list is absent, no list or empty, is answered 400 (input error)
\* with no store operation issued, no order and no stock change.  Stated
\* for requests whose line items, if any, name stored products with positive
\* quantities.
MissingOrEmptyShape(body) ==
    \/ body.deliveryAddress \in {"undefined", "emptyString", "emptyObject"}
    \/ body.products.kind # "array"
    \/ Len(body.products.items) = 0

PlainLineItems(body) ==
    \A i \in 1..Len(body.products.items) :
        /\ body.products.items[i].productId \in Products
        /\ body.products.items[i].quantity > 0

BadShapeRejectedWithoutStoreAccess ==
    \A p \in Placements :
        (req[p] # NoRequest /\ MissingOrEmptyShape(req[p]) /\ PlainLineItems(req[p])) =>
            /\ InputRejected(p)
            /\ storeLog[p] = {}
            /\ checksPending[p] = {}
            /\ updatesPending[p] = {}
            /\ ~HasOrder(p)
            /\ stock = initialStock

\* C10: a request with a line item of quantity zero or less is answered 400
\* (input error) before any store operation is issued, and no placement
\* ever raises a product's quantity.  Stated for requests that carry an
\* address object with fields.
HasNonPositiveQuantity(body) ==
    /\ body.deliveryAddress = "object"
    /\ IsArray(body.products)
    /\ \E i \in 1..Len(body.products.items) : body.products.items[i].quantity <= 0

NonPositiveQuantityRejected ==
    /\ \A p \in Placements :
          (req[p] # NoRequest /\ HasNonPositiveQuantity(req[p])) =>
              /\ InputRejected(p)
              /\ storeLog[p] = {}
              /\ checksPending[p] = {}
    /\ \A a \in Products : stock[a] <= initialStock[a]

\* C11: a well-formed placement that runs alone and meets no store error,
\* with every line item in stock, is not rejected; once finished it is
\* Accepted, exactly one order exists, and every product's stock is the
\* initial stock minus what the request asks of it.
LonePlacementAccepted ==
    ( /\ WellFormed(req[1])
      /\ req[2] = NoRequest
      /\ \A i \in Indices(1) :
            initialStock[Items(1)[i].productId] >= Items(1)[i].quantity
      /\ ~HasFailed(1) )
    => /\ ~ShortageRejected(1)
       /\ ~InputRejected(1)
       /\ Finished(1) =>
             /\ Accepted(1)
             /\ Cardinality(orders) = 1
             /\ \A a \in Products :
                   stock[a] = initialStock[a] - RequestedQty({1}, a)

\* A lone well-formed two-item placement that was accepted and left one
\* product with stock to spare.
LonePlacementDone ==
    /\ WellFormed(req[1])
    /\ req[2] = NoRequest
    /\ Len(Items(1)) = 2
    /\ Accepted(1)
    /\ \E a \in Products : stock[a] > 0 /\ stock[a] < initialStock[a]

\* C12: a line item whose product reference resolves to no stored product
\* is treated like an understocked one.  Its read is recorded as a shortage;
\* the placement never reaches the save, changes neither inventory nor
\* orders, and ends with the shortage rejection unless a read raised an
\* error.
HasMissingProduct(p) ==
    /\ req[p] # NoRequest
    /\ ~InvalidBody(req[p])
    /\ \E i \in Indices(p) : Items(p)[i].productId = MissingId

ReadError(p) == \E i \in Indices(p) : <<"readError", i>> \in storeLog[p]

MissingProductIsShortage ==
    \A p \in Placements :
        HasMissingProduct(p) =>
            /\ pc[p] \in {"checking", "done"}
            /\ \A i \in Indices(p) :
                  (Items(p)[i].productId = MissingId /\ <<"read", i>> \in storeLog[p])
                      => <<"short", i>> \in storeLog[p]
            /\ ~Accepted(p)
            /\ ~HasOrder(p)
            /\ Applied(p) = {}
            /\ updatesPending[p] = {}
            /\ stock = initialStock
            /\ HasFailed(p) => ReadError(p)
            /\ (Finished(p) /\ ~ReadError(p)) => ShortageRejected(p)

\* A placement rejected for a shortage whose only failing line item is the
\* one that names no stored product.
MissingProductRejected ==
    \E p \in Placements :
        /\ HasMissingProduct(p)
        /\ ShortageRejected(p)
        /\ Len(Items(p)) = 2
        /\ Len(response[p].errors) = 1

\* C13: the line items of a persisted order are the ones it was created
\* with, whatever updateOrder calls have run since.
LineItemsImmutable ==
    \A o \in orders : o.products = Items(o.id)

\* C14: every decrement is conditional.  In every step that lowers a
\* product's quantity, the quantity before the step is at least the amount
\* subtracted, i.e. the quantity after it is not negative.  Stated for
\* well-formed requests.
DecrementIsConditional ==
    [][WellFormedWorkload =>
          \A a \in Products : stock'[a] < stock[a] => stock'[a] >= 0]_vars

\* C15: shortage reporting is aggregated.  A shortage rejection is sent only
\* after the read of every line item has completed, and it carries one
\* entry per line item that a read found missing or understocked; for a
\* placement running alone these are the items the initial stock cannot
\* cover.
ShortItems(p) == {i \in Indices(p) : <<"short", i>> \in storeLog[p]}

ShortageIsAggregated ==
    \A p \in Placements :
        ShortageRejected(p) =>
            /\ \A i \in Indices(p) : <<"read", i>> \in storeLog[p]
            /\ Len(response[p].errors) = Cardinality(ShortItems(p))
            /\ \A k \in 1..Len(response[p].errors) : response[p].errors[k] = MsgItemShort
            /\ req[2] = NoRequest =>
                  ShortItems(p) = {i \in Indices(p) : Insufficient(initialStock, Items(p)[i])}

\* A shortage rejection that reports both line items of a request.
TwoShortagesReported ==
    \E p \in Placements :
        /\ ShortageRejected(p)
        /\ Len(response[p].errors) = 2

\* C16: an infrastructure failure is never reported as a shortage.  Once a
\* store operation of a placement has raised an error (a read, the save or
\* an update), the placement has answered 500 and not the stock-shortage
\* 400, whatever its other line items were found to be.
ErrorRaised(p) ==
    \E e \in storeLog[p] : e[1] \in {"readError", "saveError", "updateError"}

StoreErrorIsNeverShortage ==
    \A p \in Placements :
        ErrorRaised(p) => HasFailed(p) /\ ~ShortageRejected(p)

\* A read raised an error after another line item had been found short.
ReadErrorBesideShortItem ==
    \E p \in Placements :
        /\ ReadError(p)
        /\ ShortItems(p) # {}
        /\ response[p] = Failed

\* C17: no stock is subtracted without a persisted order.  A placement
\* issues and applies its decrements only after its order record has been
\* saved; a placement whose save failed has issued and applied none, and
\* has answered 500.
OrderSaved(p) == <<"save", 0>> \in storeLog[p]
SaveFailed(p) == <<"saveError", 0>> \in storeLog[p]

NoDecrementWithoutSavedOrder ==
    \A p \in Placements :
        /\ (Applied(p) # {} \/ updatesPending[p] # {}) => OrderSaved(p)
        /\ SaveFailed(p) =>
              /\ ~OrderSaved(p)
              /\ Applied(p) = {}
              /\ updatesPending[p] = {}
              /\ HasFailed(p)
        /\ (req[2] = NoRequest /\ SaveFailed(p)) => stock = initialStock

\* One placement has failed to save its order while another has saved its
\* order and subtracted stock.
SaveFailedBesideDecrement ==
    \E p, q \in Placements :
        /\ SaveFailed(p)
        /\ OrderSaved(q)
        /\ Applied(q) # {}
        /\ \E a \in Products : stock[a] < initialStock[a]

\* C18: the availability check mutates nothing and is repeatable.  As long
\* as no placement has saved an order, no order exists; as long as no
\* placement has applied a decrement, every quantity is the initial one;
\* and two availability checks of the same line items with no decrement
\* applied in between agree on every line item both have read.
NoDecrementApplied == \A p \in Placements : Applied(p) = {}

AvailabilityCheckIsPure ==
    /\ (\A p \in Placements : ~OrderSaved(p)) => orders = {}
    /\ NoDecrementApplied => stock = initialStock
    /\ \A p, q \in Placements :
          ( /\ NoDecrementApplied
            /\ req[p] # NoRequest /\ ~InvalidBody(req[p])
            /\ req[q] # NoRequest /\ ~InvalidBody(req[q])
            /\ Items(p) = Items(q) )
          => \A i \in Indices(p) :
                (<<"read", i>> \in storeLog[p] /\ <<"read", i>> \in storeLog[q])
                => (i \in ShortItems(p) <=> i \in ShortItems(q))

\* Two placements have checked the same two line items, found the same one
\* of them short, and the inventory is as it was.
SameCheckTwice ==
    /\ req[1] # NoRequest
    /\ req[1] = req[2]
    /\ Len(Items(1)) = 2
    /\ \A p \in Placements : \A i \in Indices(p) : <<"read", i>> \in storeLog[p]
    /\ Cardinality(ShortItems(1)) = 1
    /\ ShortItems(1) = ShortItems(2)
    /\ stock = initialStock

\* C19: a placement running alone never oversells, even when its line items
\* name the same product more than once.  It is accepted only if, for each
\* product, the quantities of all its line items together are at most the
\* stock, and no stock is negative afterwards.
LonePlacementNeverOversells ==
    ( /\ req[2] = NoRequest
      /\ updPc = "idle"
      /\ req[1] # NoRequest
      /\ req[1].deliveryAddress = "object"
      /\ ~InvalidBody(req[1])
      /\ PlainLineItems(req[1])
      /\ Accepted(1) )
    => \A a \in Products :
          /\ RequestedQty({1}, a) <= initialStock[a]
          /\ stock[a] >= 0

\* C20: once a placement has sent its response it applies no further
\* mutation to the inventory: no decrement of the placement takes effect in
\* a step that starts after the response, in particular none of the
\* decrements still pending when another one failed and 500 was sent.
NoDecrementAfterResponse ==
    [][WellFormedWorkload =>
          \A p \in Placements :
              response[p] # NoResponse =>
                  \A i \in Indices(p) :
                      <<"update", i>> \in storeLog'[p] => <<"update", i>> \in storeLog[p]]_vars

====
